---- MODULE Spec2Model ----
(***************************************************************************)
(* Model of pyzcm/miner/gpu.py: the asyncio frontend GpuMiner, the backend *)
(* process _GpuMinerProcess started through run_miner_process, and the two *)
(* manager queues (work_queue, result_queue) that connect them.            *)
(***************************************************************************)
EXTENDS Integers, Sequences, FiniteSets, TLC

\* ------------------------------------------------------------------ bounds
MaxCalls == 3        \* upstream set_nonce1 / register_new_job calls
MaxAttempts == 1     \* total attempts passed to the worker's count_solutions
MaxSolutions == 2    \* Solution Messages the worker puts on result_queue
\* calls, attempts, Solution Messages, stop requests and exceptions of one run
MaxEvents == 5

\* ------------------------------------------------------------- value sets
None == "None"
Jobs == {"J1", "J2"}
Nonces == {"N1", "N2"}
SolverNonces == {"SN1"}
Nonce2s == {"X1"}
Solutions == {"S1"}
Batches == 1..MaxAttempts

\* the value of received while no message is held
NoMessage == <<>>

VARIABLES
    \* GpuMiner (frontend)
    last_received_job, nonce1, solver_nonce, stop, run_pc, received,
    \* the two manager queues
    work_queue, result_queue,
    \* _GpuMinerProcess (backend) and the local variable job of its run()
    proc_pc, job, proc_nonce1, proc_solver_nonce, solution_count,
    proc_result_queue,
    \* history of the run, read by the properties only
    calls, sent, last_poll, first_poll_backlog, accepted, counted_total,
    produced, accounted, submitted, exit_mark, stop_mark, stale_pows

frontend == <<last_received_job, nonce1, solver_nonce, stop, run_pc, received>>
queues == <<work_queue, result_queue>>
backend == <<proc_pc, job, proc_nonce1, proc_solver_nonce, solution_count,
             proc_result_queue>>
history == <<calls, sent, last_poll, first_poll_backlog, accepted,
             counted_total, produced, accounted, submitted, exit_mark,
             stop_mark, stale_pows>>
vars == <<frontend, queues, backend, history>>

\* ---------------------------------------------------------------- helpers
RECURSIVE SumCounts(_)
SumCounts(q) == IF q = <<>> THEN 0 ELSE q[1][4] + SumCounts(Tail(q))

RECURSIVE SumSeq(_)
SumSeq(s) == IF s = <<>> THEN 0 ELSE s[1] + SumSeq(Tail(s))

\* the backend has raised an exception
Faulted == exit_mark[1] >= 0

\* the events of the run so far that count against MaxEvents
Events ==
    Len(calls) + counted_total + Len(produced)
    + (IF stop THEN 1 ELSE 0) + (IF Faulted THEN 1 ELSE 0)

\* ------------------------------------------------------------ the queues
\* variant: the get drains the queue and keeps only the freshest item
work_queue_get_latest(q) == <<q[Len(q)], <<>>>>

\* variant: the get returns the oldest item without removing it
work_queue_get_peek(q) == <<Head(q), q>>

\* work_queue.get(False) on a non-empty FIFO manager queue: the oldest item
\* and what remains on the queue
work_queue_get(q) == <<Head(q), Tail(q)>>

\* variant: the get returns the oldest message without removing it
result_queue_get_peek(q) == <<Head(q), q>>

\* variant: the queue hands out the newest message first
result_queue_get_lifo(q) == <<q[Len(q)], SubSeq(q, 1, Len(q) - 1)>>

\* result_queue.get on a non-empty FIFO manager queue
result_queue_get(q) == <<Head(q), Tail(q)>>

queue_put(q, item) == Append(q, item)

\* ------------------------------------------------------- GpuMiner frontend
\* variant: the guard is written with "or"
enqueue_either_known(q, j, n, sn) ==
    IF j # None \/ n # None THEN queue_put(q, <<j, n, sn>>) ELSE q

\* variant: a context equal to the last one waiting is not put again
enqueue_unless_repeated(q, j, n, sn) ==
    IF j # None /\ n # None /\ (q = <<>> \/ q[Len(q)] # <<j, n, sn>>)
    THEN queue_put(q, <<j, n, sn>>) ELSE q

\* the guarded put of _enqueue_last_mining_job, as a function of the queue
enqueue_last_mining_job(q, j, n, sn) ==
    IF j # None /\ n # None THEN queue_put(q, <<j, n, sn>>) ELSE q

GenericMinerInit ==
    /\ last_received_job = None
    /\ nonce1 = None

AsyncMinerInit == stop = FALSE

GpuMinerInit ==
    /\ solver_nonce \in SolverNonces
    /\ work_queue = <<>>
    /\ result_queue = <<>>
    /\ run_pc = "new"
    /\ received = NoMessage

\* variant: set_nonce1 is not overridden, the base class only stores nonce1
set_nonce1_base_only(n) ==
    /\ Len(calls) < MaxCalls
    /\ Events < MaxEvents
    /\ nonce1' = n
    /\ calls' = Append(calls, <<"set_nonce1", n>>)
    /\ UNCHANGED <<last_received_job, solver_nonce, stop, run_pc, received,
                   queues, backend, sent, last_poll, first_poll_backlog,
                   accepted, counted_total, produced, accounted, submitted,
                   exit_mark, stop_mark, stale_pows>>

set_nonce1(n) ==
    /\ Len(calls) < MaxCalls
    /\ Events < MaxEvents
    /\ nonce1' = n
    /\ work_queue' = enqueue_last_mining_job(work_queue, last_received_job, n,
                                             solver_nonce)
    /\ sent' = enqueue_last_mining_job(sent, last_received_job, n, solver_nonce)
    /\ calls' = Append(calls, <<"set_nonce1", n>>)
    /\ UNCHANGED <<last_received_job, solver_nonce, stop, run_pc, received,
                   result_queue, backend, last_poll, first_poll_backlog,
                   accepted, counted_total, produced, accounted, submitted,
                   exit_mark, stop_mark, stale_pows>>

register_new_job(j) ==
    /\ Len(calls) < MaxCalls
    /\ Events < MaxEvents
    /\ last_received_job' = j
    /\ work_queue' = enqueue_last_mining_job(work_queue, j, nonce1, solver_nonce)
    /\ sent' = enqueue_last_mining_job(sent, j, nonce1, solver_nonce)
    /\ calls' = Append(calls, <<"register_new_job", j>>)
    /\ UNCHANGED <<nonce1, solver_nonce, stop, run_pc, received,
                   result_queue, backend, last_poll, first_poll_backlog,
                   accepted, counted_total, produced, accounted, submitted,
                   exit_mark, stop_mark, stale_pows>>

\* AsyncMiner.stop(): the external stop request
stop_request ==
    /\ ~stop
    /\ Events < MaxEvents
    /\ stop' = TRUE
    /\ stop_mark' = <<run_pc, Len(submitted)>>
    /\ UNCHANGED <<last_received_job, nonce1, solver_nonce, run_pc, received,
                   queues, backend, calls, sent, last_poll, first_poll_backlog,
                   accepted, counted_total, produced, accounted, submitted,
                   exit_mark, stale_pows>>

\* variant: the queues are created when run() starts, not in __init__
run_start_new_queues ==
    /\ run_pc = "new"
    /\ run_pc' = "loop"
    /\ proc_pc' = "scheduled"
    /\ work_queue' = <<>>
    /\ result_queue' = <<>>
    /\ UNCHANGED <<last_received_job, nonce1, solver_nonce, stop, received,
                   job, proc_nonce1, proc_solver_nonce, solution_count,
                   proc_result_queue, history>>

\* GpuMiner.run up to the loop: the backend is handed to the process pool
run_start ==
    /\ run_pc = "new"
    /\ run_pc' = "loop"
    /\ proc_pc' = "scheduled"
    /\ UNCHANGED <<last_received_job, nonce1, solver_nonce, stop, received,
                   queues, job, proc_nonce1, proc_solver_nonce, solution_count,
                   proc_result_queue, history>>

\* variant: the stop flag is tested only when no message is waiting
run_loop_drains_first ==
    /\ run_pc = "loop"
    /\ run_pc' = IF stop /\ result_queue = <<>> THEN "done" ELSE "receive"
    /\ UNCHANGED <<last_received_job, nonce1, solver_nonce, stop, received,
                   queues, backend, history>>

\* while not self._stop: either leave the loop or hand result_queue.get to
\* the thread executor and suspend
run_loop ==
    /\ run_pc = "loop"
    /\ run_pc' = IF stop THEN "done" ELSE "receive"
    /\ UNCHANGED <<last_received_job, nonce1, solver_nonce, stop, received,
                   queues, backend, history>>

\* variant: the get is given up when the stop flag is set and no message waits
run_get_until_stop ==
    /\ run_pc = "receive"
    /\ IF result_queue # <<>>
       THEN /\ received' = result_queue_get(result_queue)[1]
            /\ result_queue' = result_queue_get(result_queue)[2]
            /\ run_pc' = "resume"
       ELSE /\ stop
            /\ run_pc' = "loop"
            /\ UNCHANGED <<received, result_queue>>
    /\ UNCHANGED <<last_received_job, nonce1, solver_nonce, stop, work_queue,
                   backend, history>>

\* the executor thread's blocking result_queue.get returns a message
run_get ==
    /\ run_pc = "receive"
    /\ result_queue # <<>>
    /\ received' = result_queue_get(result_queue)[1]
    /\ result_queue' = result_queue_get(result_queue)[2]
    /\ run_pc' = "resume"
    /\ UNCHANGED <<last_received_job, nonce1, solver_nonce, stop, work_queue,
                   backend, history>>

\* variant: the solution is submitted for the coordinator's current job
forwarded_job_current(message_job, current_job) == current_job

\* the job GpuMiner.run passes to submit_solution
forwarded_job(message_job, current_job) == message_job

\* the coroutine resumes: count_solutions(counted); submit_solution(...)
run_apply ==
    /\ run_pc = "resume"
    /\ accounted' = Append(accounted, received[4])
    /\ submitted' = Append(submitted,
                           <<forwarded_job(received[1], last_received_job),
                             received[2], received[3]>>)
    /\ received' = NoMessage
    /\ run_pc' = "loop"
    /\ UNCHANGED <<last_received_job, nonce1, solver_nonce, stop, queues,
                   backend, calls, sent, last_poll, first_poll_backlog,
                   accepted, counted_total, produced, exit_mark, stop_mark, stale_pows>>

\* ------------------------------------------------ _GpuMinerProcess backend
\* before GpuMiner.run there is no backend process and no backend object
NoProcess ==
    /\ proc_pc = "unscheduled"
    /\ solution_count = 0
    /\ proc_result_queue = None
    /\ proc_nonce1 = None
    /\ proc_solver_nonce = None
    /\ job = None

\* count_solutions: self.solution_count += count
count_solutions(sc, count) == sc + count

\* variant: submit_solution does not reset the counter
submit_solution_keeps_count(sc) == sc

\* submit_solution: the value solution_count has after the put
submit_solution_count(sc) == 0

\* variant: the message is tagged with the backend's last_received_job, which
\* the backend never sets
solution_message_own_job(j, nonce2, len_and_solution, sc) ==
    <<None, nonce2, len_and_solution, sc>>

\* submit_solution: the tuple put on result_queue
solution_message(j, nonce2, len_and_solution, sc) ==
    <<j, nonce2, len_and_solution, sc>>

\* variant: the test is inverted
no_context_inverted(j, n) == ~(j = None \/ n = None)

\* variant: every empty poll waits, whether a context is held or not
no_context_always(j, n) == TRUE

\* the test of the queue.Empty branch of run()
no_context(j, n) == j = None \/ n = None

\* variant: the backend is started again after an exception
run_miner_process_restart == "scheduled"

\* what run_miner_process does with an exception of the backend
run_miner_process_except == "exited"

\* run_miner_process up to the loop of run(): _GpuMinerProcess.__init__, then
\* the solver is constructed, result_queue is bound and job is cleared
run_miner_process ==
    /\ proc_pc = "scheduled"
    /\ solution_count' = 0
    /\ proc_nonce1' = None
    /\ proc_solver_nonce' = solver_nonce
    /\ proc_result_queue' = "result_queue"
    /\ job' = None
    /\ proc_pc' = "poll"
    /\ UNCHANGED <<frontend, queues, history>>

\* the solver class raises in its constructor
solver_class_raises ==
    /\ proc_pc = "scheduled"
    /\ Events < MaxEvents
    /\ proc_pc' = run_miner_process_except
    /\ exit_mark' = <<Len(sent), Len(submitted)>>
    /\ UNCHANGED <<frontend, queues, job, proc_nonce1, proc_solver_nonce,
                   solution_count, proc_result_queue, calls, sent, last_poll,
                   first_poll_backlog, accepted, counted_total, produced,
                   accounted, submitted, stop_mark, stale_pows>>

\* variant: the targets of the tuple assignment are in the wrong order
unpack_context_swapped(item) == <<item[1], item[3], item[2]>>

\* (job, self.nonce1, self.solver_nonce) = item
unpack_context(item) == <<item[1], item[2], item[3]>>

\* work_queue.get(False) returns a context
proc_run_get ==
    /\ proc_pc = "poll"
    /\ work_queue # <<>>
    /\ LET r == work_queue_get(work_queue) IN
        /\ job' = unpack_context(r[1])[1]
        /\ proc_nonce1' = unpack_context(r[1])[2]
        /\ proc_solver_nonce' = unpack_context(r[1])[3]
        /\ work_queue' = r[2]
        /\ accepted' = Append(accepted, r[1])
    /\ last_poll' = "received"
    /\ first_poll_backlog' = IF last_poll = "none" THEN Len(work_queue)
                                                   ELSE first_poll_backlog
    /\ stale_pows' = 0
    /\ proc_pc' = "pow"
    /\ UNCHANGED <<frontend, result_queue, solution_count, proc_result_queue,
                   calls, sent, counted_total, produced, accounted, submitted,
                   exit_mark, stop_mark>>

\* work_queue.get(False) raises queue.Empty
proc_run_empty ==
    /\ proc_pc = "poll"
    /\ work_queue = <<>>
    /\ last_poll' = "empty"
    /\ first_poll_backlog' = IF last_poll = "none" THEN 0
                                                   ELSE first_poll_backlog
    /\ proc_pc' = "empty"
    /\ UNCHANGED <<frontend, queues, job, proc_nonce1, proc_solver_nonce,
                   solution_count, proc_result_queue, calls, sent, accepted,
                   counted_total, produced, accounted, submitted, exit_mark,
                   stop_mark, stale_pows>>

\* the except branch: wait without a context, else call do_pow on the old one
proc_run_except ==
    /\ proc_pc = "empty"
    /\ IF no_context(job, proc_nonce1)
       THEN proc_pc' = "sleep" /\ stale_pows' = stale_pows
       ELSE /\ proc_pc' = "pow"
            /\ stale_pows' = IF work_queue # <<>> THEN stale_pows + 1
                                                  ELSE stale_pows
    /\ UNCHANGED <<frontend, queues, job, proc_nonce1, proc_solver_nonce,
                   solution_count, proc_result_queue, calls, sent, last_poll,
                   first_poll_backlog, accepted, counted_total, produced,
                   accounted, submitted, exit_mark, stop_mark>>

\* time.sleep(2); continue
proc_run_sleep ==
    /\ proc_pc = "sleep"
    /\ proc_pc' = "poll"
    /\ UNCHANGED <<frontend, queues, job, proc_nonce1, proc_solver_nonce,
                   solution_count, proc_result_queue, history>>

\* do_pow reports a batch of attempts through count_solutions
do_pow_count(n) ==
    /\ proc_pc = "pow"
    /\ counted_total + n <= MaxAttempts
    /\ Events + n <= MaxEvents
    /\ solution_count' = count_solutions(solution_count, n)
    /\ counted_total' = counted_total + n
    /\ UNCHANGED <<frontend, queues, proc_pc, job, proc_nonce1,
                   proc_solver_nonce, proc_result_queue, calls, sent,
                   last_poll, first_poll_backlog, accepted, produced,
                   accounted, submitted, exit_mark, stop_mark, stale_pows>>

\* do_pow hands a solution to submit_solution
do_pow_submit(nonce2, len_and_solution) ==
    /\ proc_pc = "pow"
    /\ Len(produced) < MaxSolutions
    /\ Events < MaxEvents
    /\ proc_result_queue # None
    /\ LET m == solution_message(job, nonce2, len_and_solution,
                                 solution_count) IN
        /\ result_queue' = queue_put(result_queue, m)
        /\ produced' = Append(produced, m)
    /\ solution_count' = submit_solution_count(solution_count)
    /\ UNCHANGED <<frontend, work_queue, proc_pc, job, proc_nonce1,
                   proc_solver_nonce, proc_result_queue, calls, sent,
                   last_poll, first_poll_backlog, accepted, counted_total,
                   accounted, submitted, exit_mark, stop_mark, stale_pows>>

\* variant: after do_pow the loop solves again without polling work_queue
do_pow_return_no_poll ==
    /\ proc_pc = "pow"
    /\ proc_pc' = "empty"
    /\ UNCHANGED <<frontend, queues, job, proc_nonce1, proc_solver_nonce,
                   solution_count, proc_result_queue, history>>

\* do_pow returns and the loop of run() starts over
do_pow_return ==
    /\ proc_pc = "pow"
    /\ proc_pc' = "poll"
    /\ UNCHANGED <<frontend, queues, job, proc_nonce1, proc_solver_nonce,
                   solution_count, proc_result_queue, history>>

\* do_pow raises: the exception leaves run() and reaches run_miner_process
do_pow_raises ==
    /\ proc_pc = "pow"
    /\ Events < MaxEvents
    /\ proc_pc' = run_miner_process_except
    /\ exit_mark' = <<Len(sent), Len(submitted)>>
    /\ UNCHANGED <<frontend, queues, job, proc_nonce1, proc_solver_nonce,
                   solution_count, proc_result_queue, calls, sent, last_poll,
                   first_poll_backlog, accepted, counted_total, produced,
                   accounted, submitted, stop_mark, stale_pows>>

\* ---------------------------------------------------------- specification
Init ==
    /\ GenericMinerInit
    /\ AsyncMinerInit
    /\ GpuMinerInit
    /\ NoProcess
    /\ calls = <<>>
    /\ sent = <<>>
    /\ last_poll = "none"
    /\ first_poll_backlog = 0
    /\ accepted = <<>>
    /\ counted_total = 0
    /\ produced = <<>>
    /\ accounted = <<>>
    /\ submitted = <<>>
    /\ exit_mark = <<-1, -1>>
    /\ stop_mark = <<"none", 0>>
    /\ stale_pows = 0

Next ==
    \/ \E n \in Nonces : set_nonce1(n)
    \/ \E j \in Jobs : register_new_job(j)
    \/ stop_request
    \/ run_start
    \/ run_loop
    \/ run_get
    \/ run_apply
    \/ run_miner_process
    \/ solver_class_raises
    \/ proc_run_get
    \/ proc_run_empty
    \/ proc_run_except
    \/ proc_run_sleep
    \/ \E n \in Batches : do_pow_count(n)
    \/ \E x \in Nonce2s, s \in Solutions : do_pow_submit(x, s)
    \/ do_pow_return
    \/ do_pow_raises

Spec == Init /\ [][Next]_vars

\* ------------------------------------------------------------- properties
RECURSIVE IsSubsequence(_, _)
IsSubsequence(a, s) ==
    IF a = <<>> THEN TRUE
    ELSE IF s = <<>> THEN FALSE
    ELSE IF Head(a) = Head(s) THEN IsSubsequence(Tail(a), Tail(s))
    ELSE IsSubsequence(a, Tail(s))

HasContext == job # None /\ proc_nonce1 # None

\* C1: whenever a do_pow invocation is in progress the worker holds both a job
\* and a nonce1; a poll that finds work_queue empty while either is missing
\* leads to the sleep step, and the sleep step leads back to the poll.
C1_NoPowWithoutContext ==
    /\ [](proc_pc = "pow" => HasContext)
    /\ [][/\ ((proc_pc = "poll" /\ work_queue = <<>> /\ ~HasContext) =>
                (proc_pc' = "poll" \/ proc_pc' = "empty"))
           /\ ((proc_pc = "empty" /\ ~HasContext) =>
                (proc_pc' = "empty" \/ proc_pc' = "sleep"))
           /\ (proc_pc = "sleep" => (proc_pc' = "sleep" \/ proc_pc' = "poll"))
          ]_vars

C1_Witness ==
    /\ proc_pc = "pow"
    /\ last_poll = "received"
    /\ job \in Jobs
    /\ proc_nonce1 \in Nonces

\* C2: once the worker holds a full context it keeps one, it never enters the
\* sleep step again, and every poll it makes, empty or not, leads to do_pow.
C2_NeverBackToIdle ==
    [][HasContext =>
         /\ HasContext'
         /\ proc_pc' # "sleep"
         /\ (proc_pc = "poll" =>
               (proc_pc' = "poll" \/ proc_pc' = "pow" \/ proc_pc' = "empty"))
         /\ (proc_pc = "empty" => (proc_pc' = "empty" \/ proc_pc' = "pow"))
      ]_vars

C2_Witness ==
    /\ proc_pc = "pow"
    /\ last_poll = "empty"
    /\ accepted # <<>>

C4_OnlyCompleteContexts ==
    /\ \A i \in 1..Len(sent) : sent[i][1] # None /\ sent[i][2] # None
    /\ \A i \in 1..Len(work_queue) :
          work_queue[i][1] # None /\ work_queue[i][2] # None
    /\ (last_received_job = None \/ nonce1 = None) =>
          (sent = <<>> /\ work_queue = <<>>)

C4_Witness ==
    /\ Len(calls) = 2
    /\ last_received_job = None
    /\ nonce1 # None
    /\ work_queue = <<>>

\* C5: after exactly one register_new_job(j) and one set_nonce1(n), in either
\* order, exactly one context was put, it is (j, n, solver_nonce), and it is
\* on work_queue unless the worker has accepted it.
C5_EitherOrderOneContext ==
    \A j \in Jobs, n \in Nonces :
        (\/ calls = <<<<"register_new_job", j>>, <<"set_nonce1", n>>>>
         \/ calls = <<<<"set_nonce1", n>>, <<"register_new_job", j>>>>)
        => /\ sent = << <<j, n, solver_nonce>> >>
           /\ accepted \o work_queue = sent

C5_Witness ==
    /\ calls = <<<<"set_nonce1", "N1">>, <<"register_new_job", "J1">>>>
    /\ work_queue = << <<"J1", "N1", solver_nonce>> >>

\* C8: the contexts the worker has accepted are a subsequence of the contexts
\* the coordinator has enqueued: each matches a different put, in put order.
C8_AcceptedSubsequenceOfSent == IsSubsequence(accepted, sent)

C8_Witness ==
    /\ Len(accepted) = 2
    /\ accepted = sent
    /\ accepted[1][1] # accepted[2][1]

\* C6: a step that puts a Solution Message leaves solution_count at 0 and the
\* message carries the count held before the put; so the counts of all messages
\* produced plus the current solution_count are exactly the attempts counted.
C6_CounterResetOnSubmit ==
    /\ [](SumCounts(produced) + solution_count = counted_total)
    /\ [][produced' # produced =>
             /\ solution_count' = 0
             /\ Len(produced') = Len(produced) + 1
             /\ produced'[Len(produced')][4] = solution_count
          ]_vars

C6_Witness ==
    /\ Len(produced) = 2
    /\ produced[1][4] = 1
    /\ produced[2][4] = 0
    /\ solution_count = 0

ReceivedCount == IF received = NoMessage THEN 0 ELSE received[4]

ReceivedMessages == IF received = NoMessage THEN 0 ELSE 1

\* C7: the attempts the worker has counted equal the counts the coordinator has
\* accounted, plus the counts of the messages on result_queue or held by a
\* completed receive, plus the worker's solution_count; and the coordinator has
\* counted and submitted once for every message it has taken and applied.
C7_AttemptsConserved ==
    /\ counted_total = SumSeq(accounted) + SumCounts(result_queue)
                         + ReceivedCount + solution_count
    /\ Len(accounted) = Len(submitted)
    /\ Len(produced) = Len(submitted) + ReceivedMessages + Len(result_queue)

C7_Witness ==
    /\ SumSeq(accounted) > 0
    /\ result_queue # <<>>
    /\ proc_pc = "pow"

\* C9: the messages the coordinator has applied are, one by one and in order,
\* the first messages the worker produced.
C9_AppliedPrefixOfProduced ==
    /\ Len(accounted) = Len(submitted)
    /\ Len(submitted) <= Len(produced)
    /\ \A i \in 1..Len(submitted) :
          i <= Len(produced) =>
            produced[i] = <<submitted[i][1], submitted[i][2], submitted[i][3],
                            accounted[i]>>

C9_Witness ==
    /\ Len(submitted) = 2
    /\ produced[1] # produced[2]

\* C10: after an exception in the backend the backend stays exited and changes
\* nothing: no field of it, no get from work_queue, no put on result_queue.
\* The coordinator goes on: set_nonce1 and register_new_job stay enabled and
\* put the context they complete, a pending receive of a message that is on
\* result_queue is enabled, and so is applying a received message.
C10_FaultStaysInBackend ==
    /\ [](Faulted => proc_pc = "exited")
    /\ []((Faulted /\ Len(calls) < MaxCalls /\ Events < MaxEvents) =>
            /\ \A n \in Nonces : ENABLED set_nonce1(n)
            /\ \A j \in Jobs : ENABLED register_new_job(j))
    /\ []((Faulted /\ run_pc = "receive" /\ result_queue # <<>>) =>
            ENABLED run_get)
    /\ []((Faulted /\ run_pc = "resume") => ENABLED run_apply)
    /\ [][Faulted =>
             /\ backend' = backend
             /\ accepted' = accepted
             /\ produced' = produced
             /\ counted_total' = counted_total
             /\ \/ work_queue' = work_queue
                \/ work_queue' = Append(work_queue, <<last_received_job',
                                                      nonce1', solver_nonce>>)
             /\ \/ result_queue' = result_queue
                \/ (result_queue # <<>> /\ result_queue' = Tail(result_queue))
             /\ (calls' # calls /\ last_received_job' # None /\ nonce1' # None)
                  => Len(work_queue') = Len(work_queue) + 1
          ]_vars

C10_Witness ==
    /\ Faulted
    /\ proc_pc = "exited"
    /\ Len(sent) > exit_mark[1]
    /\ Len(submitted) > exit_mark[2]

AppliedSinceStop == Len(submitted) - stop_mark[2]

\* C11: once the stop flag is set, a receive in flight is not abandoned (the
\* loop leaves "receive" only with a message and leaves "resume" only by
\* applying it), the next test of the flag ends the loop without a new receive,
\* and so at most one message is applied after the flag was set: none when the
\* flag was set between iterations or once run() is over, and exactly one has
\* been applied whenever run() ends after a stop set during a receive.
C11_StopAfterInFlightReceive ==
    /\ [](stop =>
            /\ AppliedSinceStop <= 1
            /\ (stop_mark[1] \in {"new", "loop", "done"} => AppliedSinceStop = 0)
            /\ ((run_pc = "done" /\ stop_mark[1] \in {"receive", "resume"})
                  => AppliedSinceStop = 1))
    /\ [](run_pc = "done" => stop)
    /\ [][stop =>
             /\ (run_pc = "receive" =>
                   (run_pc' = "receive" \/
                    (run_pc' = "resume" /\ received' = Head(result_queue))))
             /\ (run_pc = "resume" =>
                   (run_pc' = "resume" \/
                    (run_pc' = "loop" /\ Len(submitted') = Len(submitted) + 1)))
             /\ (run_pc = "loop" => (run_pc' = "loop" \/ run_pc' = "done"))
             /\ (run_pc = "done" => run_pc' = "done")
          ]_vars

C11_Witness ==
    /\ stop
    /\ stop_mark[1] = "receive"
    /\ run_pc = "done"
    /\ AppliedSinceStop = 1
    /\ result_queue # <<>>

\* the number of messages produced so far that are tagged with job j
RECURSIVE Tagged(_, _)
Tagged(q, j) ==
    IF q = <<>> THEN 0
    ELSE (IF q[1][1] = j THEN 1 ELSE 0) + Tagged(Tail(q), j)

\* C12: a step that puts a Solution Message puts exactly one, tagged with the
\* job the worker holds at that step, with a count of at least 0, and leaves
\* solution_count at 0; the step does not change the worker's context. Hence
\* every message is tagged with the job of a context the worker had accepted.
C12_TaggedWithCurrentJob ==
    /\ [](\A i \in 1..Len(produced) :
            /\ produced[i][4] >= 0
            /\ \E k \in 1..Len(accepted) : produced[i][1] = accepted[k][1])
    /\ [][produced' # produced =>
             /\ HasContext
             /\ job' = job
             /\ accepted' = accepted
             /\ Len(produced') = Len(produced) + 1
             /\ SubSeq(produced', 1, Len(produced)) = produced
             /\ produced'[Len(produced')][1] = job
             /\ Tagged(produced', job) = Tagged(produced, job) + 1
             /\ result_queue' = Append(result_queue, produced'[Len(produced')])
             /\ solution_count' = 0
          ]_vars

C12_Witness ==
    /\ Len(accepted) = 2
    /\ accepted[1][1] # accepted[2][1]
    /\ job = accepted[2][1]
    /\ Len(produced) = 2
    /\ Tagged(produced, accepted[1][1]) = 2

\* C13: whatever run() and the backend are doing, set_nonce1 and
\* register_new_job are enabled (up to the bounds of the model); until the
\* worker's first poll every context put is still on work_queue; and a poll
\* that finds contexts on work_queue takes the oldest one as its context.
C13_AcceptedAtAnyTime ==
    /\ []((Len(calls) < MaxCalls /\ Events < MaxEvents) =>
            \A n \in Nonces, j \in Jobs :
                ENABLED set_nonce1(n) /\ ENABLED register_new_job(j))
    /\ [](last_poll = "none" => (accepted = <<>> /\ work_queue = sent))
    /\ [][(proc_pc = "poll" /\ work_queue # <<>>) =>
             \/ proc_pc' = "poll"
             \/ /\ proc_pc' = "pow"
                /\ <<job', proc_nonce1', proc_solver_nonce'>> = Head(work_queue)
                /\ work_queue' = Tail(work_queue)
          ]_vars

C13_Witness ==
    /\ first_poll_backlog >= 1
    /\ Len(accepted) = 1
    /\ accepted[1] = sent[1]
    /\ run_pc = "receive"
    /\ work_queue # <<>>

Context == <<job, proc_nonce1, proc_solver_nonce>>

\* C14: from the first accepted context on, the worker's triple is the context
\* it accepted last, which is one of the triples the coordinator enqueued; a
\* step changes the triple only by accepting the oldest context on work_queue,
\* so an empty poll leaves it unchanged.
C14_ContextReplacedWhole ==
    /\ [](accepted # <<>> =>
            /\ Context = accepted[Len(accepted)]
            /\ \E i \in 1..Len(sent) : Context = sent[i])
    /\ [][/\ ((accepted # <<>> /\ Context' # Context) =>
                (proc_pc = "poll" /\ work_queue # <<>>
                 /\ Context' = Head(work_queue)))
           /\ (((proc_pc = "poll" /\ work_queue = <<>>) \/ proc_pc = "empty") =>
                Context' = Context)
          ]_vars

C14_Witness ==
    /\ Len(accepted) = 2
    /\ accepted[1] # accepted[2]
    /\ Context = accepted[2]
    /\ last_poll = "empty"
    /\ proc_pc = "pow"

\* the calls after which the coordinator knew both a job and a nonce1
CompletingCalls ==
    {i \in 1..Len(calls) :
        /\ \E a \in 1..i : calls[a][1] = "register_new_job"
        /\ \E b \in 1..i : calls[b][1] = "set_nonce1"}

\* C15: a call after which both job and nonce1 are known puts exactly one
\* context, made of the coordinator's job, nonce1 and solver_nonce as they are
\* after the call, also when it equals the context put before; any other call
\* puts nothing. So the number of contexts ever put is the number of such calls.
C15_OnePutPerCompletingCall ==
    /\ [](Len(sent) = Cardinality(CompletingCalls))
    /\ [][calls' # calls =>
             IF last_received_job' # None /\ nonce1' # None
             THEN LET c == <<last_received_job', nonce1', solver_nonce>> IN
                  /\ sent' = Append(sent, c)
                  /\ work_queue' = Append(work_queue, c)
             ELSE sent' = sent /\ work_queue' = work_queue
          ]_vars

C15_Witness ==
    /\ Len(calls) = 3
    /\ calls[2] = calls[3]
    /\ Len(sent) = 2
    /\ sent[1] = sent[2]
    /\ Len(work_queue) = 2

\* C16: a poll never waits: in the poll step either the get or the Empty
\* branch is enabled. Every do_pow invocation starts right after one poll (a
\* successful get, or an Empty followed by the except branch) and ends in the
\* next poll or in the exit of the backend. stale_pows counts the do_pow
\* invocations started on the old context while a context was waiting on
\* work_queue, since the last accepted context: it never exceeds 1, and the
\* poll after such an invocation accepts a context.
C16_OnePollPerPow ==
    /\ [](proc_pc = "poll" => ENABLED (proc_run_get \/ proc_run_empty))
    /\ [](stale_pows <= 1)
    /\ [][/\ ((proc_pc # "pow" /\ proc_pc' = "pow") =>
                ((proc_pc = "poll" /\ work_queue # <<>>) \/ proc_pc = "empty"))
           /\ (proc_pc = "empty" =>
                (proc_pc' = "empty" \/ proc_pc' = "sleep" \/ proc_pc' = "pow"))
           /\ ((proc_pc = "pow" /\ proc_pc' # "pow") =>
                (proc_pc' = "poll" \/ proc_pc' = "exited"))
           /\ ((stale_pows = 1 /\ proc_pc = "poll" /\ proc_pc' # "poll") =>
                (Len(accepted') = Len(accepted) + 1 /\ stale_pows' = 0))
          ]_vars

C16_Witness ==
    /\ stale_pows = 1
    /\ proc_pc = "pow"
    /\ last_poll = "empty"
    /\ work_queue # <<>>
    /\ Context # Head(work_queue)

\* the steps of the backend other than an exception: the backend process is
\* scheduled by the operating system and every do_pow invocation returns
WorkerStep ==
    \/ run_miner_process
    \/ proc_run_get
    \/ proc_run_empty
    \/ proc_run_except
    \/ proc_run_sleep
    \/ do_pow_return

FairSpec == Init /\ [][Next]_vars /\ WF_vars(WorkerStep)

Fresh == sent # <<>> /\ work_queue = <<>> /\ Context = sent[Len(sent)]

\* C17: in a run where the backend is started and never raises, and the
\* coordinator enqueues at least one context and then no more, from some point
\* on work_queue is empty and the worker's context is the last context enqueued,
\* and the worker starts do_pow again and again.
C17_EventuallyFreshest ==
    \/ <>Faulted
    \/ <>[](proc_pc = "unscheduled")
    \/ <>[](sent = <<>>)
    \/ (<>[]Fresh /\ []<>(proc_pc = "pow"))

C17_Witness ==
    /\ Fresh
    /\ Len(sent) = 2
    /\ sent[1] # sent[2]
    /\ last_poll = "empty"
    /\ proc_pc = "pow"

\* the coordinator waits for a message that an exited backend will never send
Stuck == run_pc = "receive" /\ result_queue = <<>> /\ proc_pc = "exited"

\* C18: a receive ends only by taking a message from result_queue, whether or
\* not the stop flag is set; so run() is over after a stop set during a receive
\* only when a further message was applied. When the backend has exited and
\* result_queue is empty, no step of run() is enabled and every step leaves the
\* coordinator in that receive.
C18_ReceiveEndsOnlyWithMessage ==
    /\ []((run_pc = "done" /\ stop_mark[1] = "receive") =>
            Len(submitted) > stop_mark[2])
    /\ [](Stuck => ~ENABLED (run_start \/ run_loop \/ run_get \/ run_apply))
    /\ [][/\ (run_pc = "receive" =>
                (run_pc' = "receive" \/
                 (result_queue # <<>> /\ run_pc' = "resume")))
           /\ (Stuck => Stuck')
          ]_vars

C18_Witness ==
    /\ Stuck
    /\ stop
    /\ stop_mark[1] = "receive"
    /\ accounted # <<>>

\* C19: a received message can always be applied, whatever job the coordinator
\* holds; applying it passes the message's counter to count_solutions and the
\* message's own job, nonce2 and solution to submit_solution. So every
\* submission carries the job its message was produced with.
C19_AppliedUnconditionally ==
    /\ [](run_pc = "resume" => (received # NoMessage /\ ENABLED run_apply))
    /\ [](\A i \in 1..Len(submitted) :
            submitted[i] = <<produced[i][1], produced[i][2], produced[i][3]>>)
    /\ [][run_pc = "resume" =>
             \/ (run_pc' = "resume" /\ submitted' = submitted)
             \/ /\ run_pc' = "loop"
                /\ submitted' = Append(submitted, <<received[1], received[2],
                                                    received[3]>>)
                /\ accounted' = Append(accounted, received[4])
          ]_vars

C19_Witness ==
    /\ submitted # <<>>
    /\ run_pc = "loop"
    /\ last_received_job # submitted[Len(submitted)][1]
    /\ submitted[Len(submitted)][1] = produced[Len(submitted)][1]

TypeOK ==
    /\ last_received_job \in Jobs \cup {None}
    /\ nonce1 \in Nonces \cup {None}
    /\ stop \in BOOLEAN
    /\ run_pc \in {"new", "loop", "receive", "resume", "done"}
    /\ proc_pc \in {"unscheduled", "scheduled", "poll", "empty", "sleep", "pow",
                    "exited"}
    /\ solution_count \in 0..MaxAttempts
====
